---- MODULE Spec2Model ----
(***************************************************************************)
(* Model of common.Transfer (src/common/transfer.go): copying one file     *)
(* between the local machine and a list of hosts over ssh/sftp.            *)
(*                                                                         *)
(* Strings are sequences of one-character strings, so that strings.Split,  *)
(* strings.Join, strings.Replace, path.Base and path.Join are computed as  *)
(* the Go library computes them.  File sizes are counted in units of 512   *)
(* bytes, so the 1024-byte copy buffer holds two units.                    *)
(***************************************************************************)
EXTENDS Integers, Sequences, FiniteSets, TLC

(***************************************************************************)
(* Bounds of the model.                                                    *)
(***************************************************************************)
\* Longest host list given to NewTransfer.
MaxHosts == 2
\* Most I/O faults (failed open, read or write) the environment injects in a run.
MaxFaults == 1

(***************************************************************************)
(* Program constants.                                                      *)
(***************************************************************************)
TransferGet == "GET"
TransferPut == "PUT"
\* C.TransferMaxSize, in units.
TransferMaxSize == 3
\* C.Server.DefaultPort.
DefaultPort == 22
\* len(buf), in units.
BufSize == 2

(***************************************************************************)
(* Strings.                                                                *)
(***************************************************************************)
Digits == <<"0", "1", "2", "3", "4", "5", "6", "7", "8", "9">>

RECURSIVE Itoa(_)
\* strconv.Itoa for n >= 0.
Itoa(n) == IF n < 10 THEN <<Digits[n + 1]>> ELSE Itoa(n \div 10) \o <<Digits[(n % 10) + 1]>>

\* strings.Index(s, ch) < 0, for a one-character ch.
NoIndex(s, ch) == \A i \in 1..Len(s) : s[i] # ch

RECURSIVE SplitFrom(_, _, _, _)
SplitFrom(s, i, cur, acc) ==
    IF i > Len(s) THEN Append(acc, cur)
    ELSE IF s[i] = acc[1] THEN SplitFrom(s, i + 1, <<>>, Append(acc, cur))
    ELSE SplitFrom(s, i + 1, Append(cur, s[i]), acc)

\* strings.Split(s, sep), for a one-character sep.
Split(s, sep) == Tail(SplitFrom(s, 1, <<>>, <<sep>>))

RECURSIVE Join(_, _)
\* strings.Join(parts, sep).
Join(parts, sep) ==
    IF Len(parts) = 0 THEN <<>>
    ELSE IF Len(parts) = 1 THEN parts[1]
    ELSE parts[1] \o sep \o Join(Tail(parts), sep)

\* strings.Replace(s, old, new, -1), for one-character old and new.
Replace(s, old, new) == [i \in 1..Len(s) |-> IF s[i] = old THEN new ELSE s[i]]

\* strings.HasSuffix(s, "/").
HasSuffixSlash(s) == Len(s) > 0 /\ s[Len(s)] = "/"

RECURSIVE StripSlashes(_)
StripSlashes(s) == IF HasSuffixSlash(s) THEN StripSlashes(SubSeq(s, 1, Len(s) - 1)) ELSE s

\* path.Base(p).
Base(p) ==
    IF Len(p) = 0 THEN <<".">>
    ELSE LET q == StripSlashes(p)
             parts == Split(q, "/")
         IN  IF Len(q) = 0 THEN <<"/">> ELSE parts[Len(parts)]

\* path.Join(dir, name) for a rooted dir and a name without "." or ".." elements.
PathJoin(dir, name) ==
    LET parts == Split(dir \o <<"/">> \o name, "/")
        kept == SelectSeq(parts, LAMBDA e : Len(e) > 0)
    IN  <<"/">> \o Join(kept, <<"/">>)

(***************************************************************************)
(* The environment: host names, name resolution, files.                    *)
(***************************************************************************)
\* Host strings a caller may pass: "a", "a:22", "b:22", "a:23", "c".
HostNames ==
    { <<"a">>, <<"a", ":", "2", "2">>, <<"b", ":", "2", "2">>,
      <<"a", ":", "2", "3">>, <<"c">> }

\* The key initClient dials and stores a host under.
HostKey(h) == IF NoIndex(h, ":") THEN h \o <<":">> \o Itoa(DefaultPort) ELSE h

\* The IP a host name resolves to: "a" and "b" name the same machine, "d" has
\* an IPv6 address only.
IPOf(name) ==
    IF name = <<"c">> THEN <<"1", ".", "3">>
    ELSE IF name = <<"d">> THEN <<":", ":", "1">>
    ELSE <<"1", ".", "2">>

\* c.Conn.RemoteAddr().String() of a channel dialed to key: ip:port, [ip]:port for
\* an IPv6 peer.
RemoteAddr(key) ==
    LET hp == Split(key, ":")
        ip == IPOf(hp[1])
    IN  (IF NoIndex(ip, ":") THEN ip ELSE <<"[">> \o ip \o <<"]">>) \o <<":">> \o hp[2]

HostLists == UNION { [1..n -> HostNames] : n \in 1..MaxHosts }
Keys == { HostKey(h) : h \in HostNames }
Servers == { RemoteAddr(k) : k \in Keys }

LocalPaths == { <<"/", "l">> }
RemotePaths == { <<"/", "d", "/">>, <<"/", "d", "/", "f", ".", "t">>, <<"/", "d", "/", "f">> }

\* A file of n units all written by who.
Content(who, n) == [i \in 1..n |-> who]
Absent == [kind |-> "absent", data |-> <<>>]
Dir == [kind |-> "dir", data |-> <<>>]
File(data) == [kind |-> "file", data |-> data]
\* The local source of a send: one unit more than a buffer.
LocalFile == File(Content(<<"local">>, BufSize + 1))
\* What a remote path may hold before the run.
RemoteFiles(s) == { File(Content(s, n)) : n \in (TransferMaxSize - 1)..(TransferMaxSize + 1) }

EmptyMap == [x \in {} |-> 0]
MapPut(m, k, v) == [x \in DOMAIN m \cup {k} |-> IF x = k THEN v ELSE m[x]]

VARIABLES
    Method, LocalPath, RemotePath, Hosts, Override, Recursive,  \* the request
    Clients, SftpClient, TransferResult, Lock,        \* fields of Transfer
    pc, k, err,              \* position of Start, index of initClient's loop, Start's result
    chanCloses, sessCloses,  \* per dialed host index: Close calls; absent = never opened
    visited,                 \* keys the running loop of the deferred function has visited
    tasks, wg,               \* the goroutines of batchGet/batchPut, the WaitGroup counter
    local, files, remote,    \* LocalPath, the files under it, each server's remote target
    faults,                  \* I/O faults injected so far
    remote0                  \* history: remote as it was before the run

vars == << Method, LocalPath, RemotePath, Hosts, Override, Recursive, Clients, SftpClient,
           TransferResult, Lock, pc, k, err, chanCloses, sessCloses, visited,
           tasks, wg, local, files, remote, faults, remote0 >>

\* What a run is given and never changes: the request and the world before it.
given == << Method, LocalPath, RemotePath, Hosts, Override, Recursive, remote0 >>

\* The servers the host list reaches.
Reached(hosts) == { RemoteAddr(HostKey(hosts[i])) : i \in 1..Len(hosts) }

\* What the remote target on server s may hold before the run.  Only what the run
\* can read is varied: a path ending in "/" names no regular file, and a send
\* reads nothing of an existing file but its existence.
RemoteStates(s) == {Absent, Dir} \cup RemoteFiles(s)
World(s, method, remotePath, hosts) ==
    IF s \notin Reached(hosts) \/ method \notin {TransferGet, TransferPut} THEN {Absent}
    ELSE IF method = TransferGet /\ HasSuffixSlash(remotePath) THEN {Absent, Dir}
    ELSE IF method = TransferPut THEN {Absent, Dir, File(Content(s, BufSize))}
    ELSE RemoteStates(s)

RECURSIVE Worlds(_, _, _, _)
\* The remote worlds over the servers S: one state of World per server.
Worlds(S, method, remotePath, hosts) ==
    IF S = {} THEN {EmptyMap}
    ELSE LET s == CHOOSE x \in S : TRUE IN
         { MapPut(m, s, v) : m \in Worlds(S \ {s}, method, remotePath, hosts),
                             v \in World(s, method, remotePath, hosts) }

\* The fields NewTransfer fills from its arguments, and the world the run finds.
Request ==
    /\ Method \in {TransferGet, TransferPut, "NOP"}
    /\ LocalPath \in LocalPaths
    /\ RemotePath \in RemotePaths
    /\ Hosts \in HostLists
    /\ local \in {Absent, Dir, LocalFile}
    /\ remote \in Worlds(Servers, Method, RemotePath, Hosts)

\* The fields NewTransfer fixes, and the run before its first step.
Fresh ==
    /\ Clients = EmptyMap
    /\ SftpClient = EmptyMap
    /\ TransferResult = EmptyMap
    /\ Lock = <<>>
    /\ pc = "auth"
    /\ k = 1
    /\ err = "nil"
    /\ chanCloses = EmptyMap
    /\ sessCloses = EmptyMap
    /\ visited = {}
    /\ tasks = EmptyMap
    /\ wg = 0
    /\ files = EmptyMap
    /\ faults = 0
    /\ remote0 = remote

\* NewTransfer, and the world it runs in; Override is the caller's to set.
Init ==
    /\ Request
    /\ Override \in (IF Method = TransferPut THEN BOOLEAN ELSE {FALSE})
    /\ Recursive = FALSE
    /\ Fresh

\* A caller that sets the exported Recursive field before Start.
InitRecursive ==
    /\ Request
    /\ Override \in (IF Method = TransferPut THEN BOOLEAN ELSE {FALSE})
    /\ Recursive = TRUE
    /\ Fresh

(***************************************************************************)
(* Start and initClient.                                                   *)
(***************************************************************************)
\* The host initClient's loop is at, as dialed.
CurKey == HostKey(Hosts[k])

\* initClient: GetAuth succeeds.
AuthOk ==
    /\ pc = "auth"
    /\ pc' = "dial"
    /\ UNCHANGED << given, Clients, SftpClient, TransferResult, Lock, k, err,
                    chanCloses, sessCloses, visited, tasks, wg, local, files, remote, faults >>

\* initClient: GetAuth fails, log.Fatalln ends the process.
AuthFail ==
    /\ pc = "auth"
    /\ pc' = "exited"
    /\ UNCHANGED << given, Clients, SftpClient, TransferResult, Lock, k, err,
                    chanCloses, sessCloses, visited, tasks, wg, local, files, remote, faults >>

\* initClient: ssh.Dial succeeds for host k, the channel is stored under its key.
DialOk ==
    /\ pc = "dial"
    /\ Clients' = MapPut(Clients, CurKey, k)
    /\ chanCloses' = MapPut(chanCloses, k, 0)
    /\ pc' = "sftp"
    /\ UNCHANGED << given, SftpClient, TransferResult, Lock, k, err,
                    sessCloses, visited, tasks, wg, local, files, remote, faults >>

\* Where Start goes when initClient's loop has stored host k.
AfterHost == IF k = Len(Hosts) THEN "check" ELSE "dial"

\* DialFail as it would be if initClient noted the error and went on to the next host.
DialFailSkip ==
    /\ pc = "dial"
    /\ err' = "DialError"
    /\ pc' = AfterHost
    /\ k' = k + 1
    /\ UNCHANGED << given, Clients, SftpClient, TransferResult, Lock,
                    chanCloses, sessCloses, visited, tasks, wg, local, files, remote, faults >>

\* initClient: ssh.Dial fails for host k; initClient and Start return the error.
DialFail ==
    /\ pc = "dial"
    /\ err' = "DialError"
    /\ pc' = "returned"
    /\ UNCHANGED << given, Clients, SftpClient, TransferResult, Lock, k,
                    chanCloses, sessCloses, visited, tasks, wg, local, files, remote, faults >>

\* initClient: sftp.NewClient succeeds for host k.
NewClientOk ==
    /\ pc = "sftp"
    /\ SftpClient' = MapPut(SftpClient, CurKey, k)
    /\ sessCloses' = MapPut(sessCloses, k, 0)
    /\ pc' = AfterHost
    /\ k' = k + 1
    /\ UNCHANGED << given, Clients, TransferResult, Lock, err,
                    chanCloses, visited, tasks, wg, local, files, remote, faults >>

\* initClient: sftp.NewClient fails for host k; the map keeps a nil client (0).
NewClientFail ==
    /\ pc = "sftp"
    /\ SftpClient' = MapPut(SftpClient, CurKey, 0)
    /\ err' = "SftpError"
    /\ pc' = "returned"
    /\ UNCHANGED << given, Clients, TransferResult, Lock, k,
                    chanCloses, sessCloses, visited, tasks, wg, local, files, remote, faults >>

\* Start, Method neither GET nor PUT: return nil, through the deferred closes.
StartOther ==
    /\ pc = "check"
    /\ Method \notin {TransferGet, TransferPut}
    /\ pc' = "closeSftp"
    /\ UNCHANGED << given, Clients, SftpClient, TransferResult, Lock, k, err,
                    chanCloses, sessCloses, visited, tasks, wg, local, files, remote, faults >>

\* batchGet: os.Stat(LocalPath), MkdirAll when it is absent, log.Fatalln when it is a file.
BatchGetCheck ==
    /\ pc = "check"
    /\ Method = TransferGet
    /\ \/ /\ local.kind = "absent"
          /\ local' = Dir
          /\ pc' = "spawn"
          /\ UNCHANGED << err, faults >>
       \/ /\ local.kind = "absent"
          /\ faults < MaxFaults
          /\ faults' = faults + 1
          /\ err' = "MkdirError"
          /\ pc' = "closeSftp"
          /\ UNCHANGED local
       \/ /\ local.kind = "dir"
          /\ pc' = "spawn"
          /\ UNCHANGED << local, err, faults >>
       \/ /\ local.kind = "file"
          /\ pc' = "exited"
          /\ UNCHANGED << local, err, faults >>
    /\ UNCHANGED << given, Clients, SftpClient, TransferResult, Lock, k,
                    chanCloses, sessCloses, visited, tasks, wg, files, remote >>

\* batchPut: os.Stat(LocalPath); an absent path and a directory are errors.
BatchPutCheck ==
    /\ pc = "check"
    /\ Method = TransferPut
    /\ \/ /\ local.kind = "absent"
          /\ err' = "StatError"
          /\ pc' = "closeSftp"
       \/ /\ local.kind = "dir"
          /\ err' = "Recursive"
          /\ pc' = "closeSftp"
       \/ /\ local.kind = "file"
          /\ pc' = "spawn"
          /\ UNCHANGED err
    /\ UNCHANGED << given, Clients, SftpClient, TransferResult, Lock, k,
                    chanCloses, sessCloses, visited, tasks, wg, local, files, remote, faults >>

\* A goroutine as go func(sc, c) starts it: the clients it was passed, the bytes
\* counted, the offsets of its source and destination handles, the destination path;
\* opened and faulted are history: it has opened its destination, the faults it met.
NewTask(sc, c) ==
    [pc |-> "stat", res |-> "", sc |-> sc, c |-> c, size |-> 0, rpos |-> 0, wpos |-> 0,
     target |-> <<>>, opened |-> FALSE, faulted |-> 0]

\* batchGet/batchPut: one iteration of the range over SftpClient: wg.Add(1), go func.
Spawn(h) ==
    /\ pc = "spawn"
    /\ h \in DOMAIN SftpClient \ DOMAIN tasks
    /\ tasks' = MapPut(tasks, h, NewTask(SftpClient[h], Clients[h]))
    /\ wg' = wg + 1
    /\ pc' = IF DOMAIN tasks' = DOMAIN SftpClient THEN "wait" ELSE "spawn"
    /\ UNCHANGED << given, Clients, SftpClient, TransferResult, Lock, k, err,
                    chanCloses, sessCloses, visited, local, files, remote, faults >>

\* Wait as it would be without the barrier: the batch returns with goroutines running.
WaitEarly ==
    /\ pc = "wait"
    /\ pc' = "closeSftp"
    /\ UNCHANGED << given, Clients, SftpClient, TransferResult, Lock, k, err,
                    chanCloses, sessCloses, visited, tasks, wg, local, files, remote, faults >>

\* Wait as it would be if the batch returned the error of a goroutine.
WaitReturnsTaskError ==
    /\ pc = "wait"
    /\ wg = 0
    /\ pc' = "closeSftp"
    /\ err' = IF \E h \in DOMAIN tasks : tasks[h].res # "ok"
              THEN tasks[CHOOSE h \in DOMAIN tasks : tasks[h].res # "ok"].res
              ELSE err
    /\ UNCHANGED << given, Clients, SftpClient, TransferResult, Lock, k,
                    chanCloses, sessCloses, visited, tasks, wg, local, files, remote, faults >>

\* batchGet/batchPut: wg.Wait() returns, and with it the batch and Start's body.
Wait ==
    /\ pc = "wait"
    /\ wg = 0
    /\ pc' = "closeSftp"
    /\ UNCHANGED << given, Clients, SftpClient, TransferResult, Lock, k, err,
                    chanCloses, sessCloses, visited, tasks, wg, local, files, remote, faults >>

\* CloseSftp as it would be if the deferred function could start before the barrier
\* of the batch is passed.
CloseSftpEarly(h) ==
    /\ pc \in {"wait", "closeSftp"}
    /\ h \in DOMAIN SftpClient \ visited
    /\ sessCloses' = [sessCloses EXCEPT ![SftpClient[h]] = @ + 1]
    /\ IF visited \cup {h} = DOMAIN SftpClient
       THEN pc' = "closeSsh" /\ visited' = {}
       ELSE pc' = "closeSftp" /\ visited' = visited \cup {h}
    /\ UNCHANGED << given, Clients, SftpClient, TransferResult, Lock, k, err,
                    chanCloses, tasks, wg, local, files, remote, faults >>

\* Start's deferred function, first loop: sc.Close() for one entry of SftpClient.
CloseSftp(h) ==
    /\ pc = "closeSftp"
    /\ h \in DOMAIN SftpClient \ visited
    /\ sessCloses' = [sessCloses EXCEPT ![SftpClient[h]] = @ + 1]
    /\ IF visited \cup {h} = DOMAIN SftpClient
       THEN pc' = "closeSsh" /\ visited' = {}
       ELSE pc' = "closeSftp" /\ visited' = visited \cup {h}
    /\ UNCHANGED << given, Clients, SftpClient, TransferResult, Lock, k, err,
                    chanCloses, tasks, wg, local, files, remote, faults >>

\* Start's deferred function, second loop: c.Close() for one entry of Clients.
CloseSsh(h) ==
    /\ pc = "closeSsh"
    /\ h \in DOMAIN Clients \ visited
    /\ chanCloses' = [chanCloses EXCEPT ![Clients[h]] = @ + 1]
    /\ IF visited \cup {h} = DOMAIN Clients
       THEN pc' = "returned" /\ visited' = {}
       ELSE pc' = "closeSsh" /\ visited' = visited \cup {h}
    /\ UNCHANGED << given, Clients, SftpClient, TransferResult, Lock, k, err,
                    sessCloses, tasks, wg, local, files, remote, faults >>

(***************************************************************************)
(* The transfer goroutines.                                                *)
(***************************************************************************)
Min(a, b) == IF a < b THEN a ELSE b
Max(a, b) == IF a > b THEN a ELSE b

\* The server behind the sftp client a task holds, and the address of its channel.
ServerOf(t) == RemoteAddr(HostKey(Hosts[t.sc]))
AddrOf(t) == RemoteAddr(HostKey(Hosts[t.c]))

\* get: the local file a fetch of basename from the peer at addr is written to.
DstName(basename, addr) ==
    LET xaddr == Split(addr, ":")
        exp == Split(basename, ".")
        lenth == Len(exp)
        ext == IF lenth > 1 THEN exp[lenth] ELSE <<>>
        prefName == IF lenth > 1 THEN Join(SubSeq(exp, 1, lenth - 1), <<".">>) ELSE basename
    IN  prefName \o <<"-">> \o Replace(xaddr[1], ".", "-") \o <<".">> \o ext

\* put: the remote path a send writes.
PutTarget(localPath, remotePath) ==
    IF HasSuffixSlash(remotePath) THEN PathJoin(remotePath, Base(localPath)) ELSE remotePath

\* File.Write of chunk at offset pos (a hole reads as <<"hole">>; a unit of a file is
\* named after its origin, a server address or <<"local">>).
WriteAt(data, pos, chunk) ==
    [i \in 1..Max(Len(data), pos + Len(chunk)) |->
        IF i > pos /\ i <= pos + Len(chunk) THEN chunk[i - pos]
        ELSE IF i <= Len(data) THEN data[i] ELSE <<"hole">>]

\* Finish as it would be if the first error cancelled the goroutines still running.
FinishCancel(h, res) ==
    LET hit == IF res = "ok" THEN {h}
               ELSE {h} \cup { g \in DOMAIN tasks : tasks[g].pc # "done" }
    IN  /\ tasks' = [g \in DOMAIN tasks |->
                        IF g = h THEN [tasks[g] EXCEPT !.pc = "done", !.res = res]
                        ELSE IF g \in hit THEN [tasks[g] EXCEPT !.pc = "done", !.res = "Cancelled"]
                        ELSE tasks[g]]
        /\ wg' = wg - Cardinality(hit)

\* The goroutine of h returns res: the deferred wg.Done().
Finish(h, res) ==
    /\ tasks' = [tasks EXCEPT ![h].pc = "done", ![h].res = res]
    /\ wg' = wg - 1

\* The goroutine of h returns res after an I/O fault.
Fail(h, res) ==
    /\ tasks' = [tasks EXCEPT ![h].pc = "done", ![h].res = res, ![h].faulted = @ + 1]
    /\ wg' = wg - 1

Running(h, at) == h \in DOMAIN tasks /\ tasks[h].pc = at

\* GetStat as it would be if a file of exactly the maximum size were refused.
GetStatStrict(h) ==
    /\ Method = TransferGet
    /\ Running(h, "stat")
    /\ LET fi == remote[ServerOf(tasks[h])] IN
         \/ /\ IF fi.kind = "absent" THEN Finish(h, "StatError")
               ELSE IF fi.kind = "dir" THEN Finish(h, "RemoteDir")
               ELSE IF Len(fi.data) >= TransferMaxSize THEN Finish(h, "MaxSize")
               ELSE tasks' = [tasks EXCEPT ![h].pc = "open"] /\ UNCHANGED wg
            /\ UNCHANGED faults
         \/ /\ fi.kind # "absent"      \* the Stat fails although the path exists
            /\ faults < MaxFaults
            /\ faults' = faults + 1
            /\ Fail(h, "StatError")
    /\ UNCHANGED << given, Clients, SftpClient, TransferResult, Lock, pc, k, err,
                    chanCloses, sessCloses, visited, local, files, remote >>

\* get: sc.Stat(remotePath) and the checks on its result.
GetStat(h) ==
    /\ Method = TransferGet
    /\ Running(h, "stat")
    /\ LET fi == remote[ServerOf(tasks[h])] IN
         \/ /\ IF fi.kind = "absent" THEN Finish(h, "StatError")
               ELSE IF fi.kind = "dir" THEN Finish(h, "RemoteDir")
               ELSE IF Len(fi.data) > TransferMaxSize THEN Finish(h, "MaxSize")
               ELSE tasks' = [tasks EXCEPT ![h].pc = "open"] /\ UNCHANGED wg
            /\ UNCHANGED faults
         \/ /\ fi.kind # "absent"      \* the Stat fails although the path exists
            /\ faults < MaxFaults
            /\ faults' = faults + 1
            /\ Fail(h, "StatError")
    /\ UNCHANGED << given, Clients, SftpClient, TransferResult, Lock, pc, k, err,
                    chanCloses, sessCloses, visited, local, files, remote >>

\* get: sc.Open(remotePath).
GetOpen(h) ==
    /\ Method = TransferGet
    /\ Running(h, "open")
    /\ \/ /\ tasks' = [tasks EXCEPT ![h].pc = "create"]
          /\ UNCHANGED << wg, faults >>
       \/ /\ faults < MaxFaults
          /\ faults' = faults + 1
          /\ Fail(h, "OpenError")
    /\ UNCHANGED << given, Clients, SftpClient, TransferResult, Lock, pc, k, err,
                    chanCloses, sessCloses, visited, local, files, remote >>

\* get: os.OpenFile of the destination with O_CREATE|O_WRONLY|O_TRUNC.
GetCreate(h) ==
    /\ Method = TransferGet
    /\ Running(h, "create")
    /\ \E fiName \in {Base(RemotePath)} :    \* fi.Name() of sc.Stat(remotePath)
       \E basename \in {Base(fiName)} :
       \E addr \in {AddrOf(tasks[h])} :
       \E name \in {DstName(basename, addr)} :
       \E dst \in {PathJoin(LocalPath, name)} :
         \/ /\ files' = MapPut(files, dst, <<>>)
            /\ tasks' = [tasks EXCEPT ![h].pc = "copy", ![h].target = dst, ![h].opened = TRUE]
            /\ UNCHANGED << wg, faults >>
         \/ /\ faults < MaxFaults
            /\ faults' = faults + 1
            /\ Fail(h, "CreateError")
            /\ UNCHANGED files
    /\ UNCHANGED << given, Clients, SftpClient, TransferResult, Lock, pc, k, err,
                    chanCloses, sessCloses, visited, local, remote >>

\* One srcFile.Read(buf): the units read from data at offset pos, none on a fault.
ReadAt(data, pos) == SubSeq(data, pos + 1, Min(Len(data), pos + BufSize))

\* get: one iteration of the copy loop.
GetCopy(h) ==
    /\ Method = TransferGet
    /\ Running(h, "copy")
    /\ LET t == tasks[h]
           buf == ReadAt(remote[ServerOf(t)].data, t.rpos)
           n == Len(buf)
       IN  \/ /\ n < 1
              /\ tasks' = [tasks EXCEPT ![h].pc = "lock"]
              /\ UNCHANGED << files, faults >>
           \/ /\ n >= 1
              /\ files' = [files EXCEPT ![t.target] = WriteAt(@, t.wpos, buf)]
              /\ tasks' = [tasks EXCEPT ![h].size = @ + n, ![h].rpos = @ + n, ![h].wpos = @ + n]
              /\ UNCHANGED faults
           \/ /\ n >= 1               \* the read fails: n = 0 as at the end of the file,
              /\ faults < MaxFaults   \* the error is dropped
              /\ faults' = faults + 1
              /\ tasks' = [tasks EXCEPT ![h].pc = "lock", ![h].faulted = @ + 1]
              /\ UNCHANGED files
           \/ /\ n >= 1               \* the write fails: its error is dropped
              /\ faults < MaxFaults
              /\ faults' = faults + 1
              /\ tasks' = [tasks EXCEPT ![h].size = @ + n, ![h].rpos = @ + n,
                                        ![h].faulted = @ + 1]
              /\ UNCHANGED files
    /\ UNCHANGED << given, Clients, SftpClient, TransferResult, Lock, pc, k, err,
                    chanCloses, sessCloses, visited, wg, local, remote >>

\* GetLock as it would be with a lock that excludes nobody.
GetLockNoWait(h) ==
    /\ Method = TransferGet
    /\ Running(h, "lock")
    /\ Lock' = h
    /\ tasks' = [tasks EXCEPT ![h].pc = "record"]
    /\ UNCHANGED << given, Clients, SftpClient, TransferResult, pc, k, err,
                    chanCloses, sessCloses, visited, wg, local, files, remote, faults >>

\* get: t.Lock.Lock().
GetLock(h) ==
    /\ Method = TransferGet
    /\ Running(h, "lock")
    /\ Lock = <<>>
    /\ Lock' = h
    /\ tasks' = [tasks EXCEPT ![h].pc = "record"]
    /\ UNCHANGED << given, Clients, SftpClient, TransferResult, pc, k, err,
                    chanCloses, sessCloses, visited, wg, local, files, remote, faults >>

\* The FileTransfer a task records.
Outcome(source, t) == [Source |-> source, Target |-> t.target, Size |-> t.size]

\* get: t.TransferResult[addr] = ft, with Lock held.
GetRecord(h) ==
    /\ Method = TransferGet
    /\ Running(h, "record")
    /\ TransferResult' = MapPut(TransferResult, AddrOf(tasks[h]), Outcome(RemotePath, tasks[h]))
    /\ tasks' = [tasks EXCEPT ![h].pc = "unlock"]
    /\ UNCHANGED << given, Clients, SftpClient, Lock, pc, k, err, wg,
                    chanCloses, sessCloses, visited, local, files, remote, faults >>

\* GetUnlock as it would be if the goroutine went on without t.Lock.Unlock().
GetUnlockSkipped(h) ==
    /\ Method = TransferGet
    /\ Running(h, "unlock")
    /\ tasks' = [tasks EXCEPT ![h].pc = "return"]
    /\ UNCHANGED << given, Clients, SftpClient, TransferResult, Lock, pc, k, err, wg,
                    chanCloses, sessCloses, visited, local, files, remote, faults >>

\* get: t.Lock.Unlock().
GetUnlock(h) ==
    /\ Method = TransferGet
    /\ Running(h, "unlock")
    /\ Lock' = <<>>
    /\ tasks' = [tasks EXCEPT ![h].pc = "return"]
    /\ UNCHANGED << given, Clients, SftpClient, TransferResult, pc, k, err, wg,
                    chanCloses, sessCloses, visited, local, files, remote, faults >>

\* get: return nil: the deferred Close of both files, then the goroutine's wg.Done().
GetReturn(h) ==
    /\ Method = TransferGet
    /\ Running(h, "return")
    /\ Finish(h, "ok")
    /\ UNCHANGED << given, Clients, SftpClient, TransferResult, Lock, pc, k, err,
                    chanCloses, sessCloses, visited, local, files, remote, faults >>

\* put: the target path, _, e := sc.Stat of it and the overwrite check, made only
\* when e == nil: a Stat that returns an error, the target absent or not, goes on
\* to the open.
PutStat(h) ==
    /\ Method = TransferPut
    /\ Running(h, "stat")
    /\ \/ /\ remote[ServerOf(tasks[h])].kind # "absent"    \* e == nil
          /\ IF ~Override
             THEN Finish(h, "RemoteExists")
             ELSE /\ tasks' = [tasks EXCEPT ![h].pc = "open",
                                            ![h].target = PutTarget(LocalPath, RemotePath)]
                  /\ UNCHANGED wg
          /\ UNCHANGED faults
       \/ /\ remote[ServerOf(tasks[h])].kind = "absent"    \* e # nil: no such file
          /\ tasks' = [tasks EXCEPT ![h].pc = "open",
                                    ![h].target = PutTarget(LocalPath, RemotePath)]
          /\ UNCHANGED << wg, faults >>
       \/ /\ remote[ServerOf(tasks[h])].kind # "absent"    \* e # nil: the Stat fails
          /\ faults < MaxFaults
          /\ faults' = faults + 1
          /\ tasks' = [tasks EXCEPT ![h].pc = "open", ![h].faulted = @ + 1,
                                    ![h].target = PutTarget(LocalPath, RemotePath)]
          /\ UNCHANGED wg
    /\ UNCHANGED << given, Clients, SftpClient, TransferResult, Lock, pc, k, err,
                    chanCloses, sessCloses, visited, local, files, remote >>

\* put: os.OpenFile(localPath, O_RDONLY).
PutOpen(h) ==
    /\ Method = TransferPut
    /\ Running(h, "open")
    /\ \/ /\ tasks' = [tasks EXCEPT ![h].pc = "create"]
          /\ UNCHANGED << wg, faults >>
       \/ /\ faults < MaxFaults
          /\ faults' = faults + 1
          /\ Fail(h, "OpenError")
    /\ UNCHANGED << given, Clients, SftpClient, TransferResult, Lock, pc, k, err,
                    chanCloses, sessCloses, visited, local, files, remote >>

\* put: sc.OpenFile(remotePath, O_CREATE|O_WRONLY|O_TRUNC); a directory cannot be opened.
PutCreate(h) ==
    /\ Method = TransferPut
    /\ Running(h, "create")
    /\ LET s == ServerOf(tasks[h]) IN
         \/ /\ remote[s].kind = "dir"
            /\ Finish(h, "CreateError")
            /\ UNCHANGED << remote, faults >>
         \/ /\ remote[s].kind # "dir"
            /\ remote' = [remote EXCEPT ![s] = File(<<>>)]
            /\ tasks' = [tasks EXCEPT ![h].pc = "copy", ![h].opened = TRUE]
            /\ UNCHANGED << wg, faults >>
         \/ /\ remote[s].kind # "dir"
            /\ faults < MaxFaults
            /\ faults' = faults + 1
            /\ Fail(h, "CreateError")
            /\ UNCHANGED remote
    /\ UNCHANGED << given, Clients, SftpClient, TransferResult, Lock, pc, k, err,
                    chanCloses, sessCloses, visited, local, files >>

\* put: one iteration of the copy loop.
PutCopy(h) ==
    /\ Method = TransferPut
    /\ Running(h, "copy")
    /\ LET t == tasks[h]
           s == ServerOf(t)
           buf == ReadAt(local.data, t.rpos)
           n == Len(buf)
       IN  \/ /\ n < 1
              /\ tasks' = [tasks EXCEPT ![h].pc = "lock"]
              /\ UNCHANGED << remote, faults >>
           \/ /\ n >= 1
              /\ remote' = [remote EXCEPT ![s].data = WriteAt(@, t.wpos, buf)]
              /\ tasks' = [tasks EXCEPT ![h].size = @ + n, ![h].rpos = @ + n, ![h].wpos = @ + n]
              /\ UNCHANGED faults
           \/ /\ n >= 1               \* the read fails: n = 0 as at the end of the file,
              /\ faults < MaxFaults   \* the error is dropped
              /\ faults' = faults + 1
              /\ tasks' = [tasks EXCEPT ![h].pc = "lock", ![h].faulted = @ + 1]
              /\ UNCHANGED remote
           \/ /\ n >= 1               \* the write fails: its error is dropped
              /\ faults < MaxFaults
              /\ faults' = faults + 1
              /\ tasks' = [tasks EXCEPT ![h].size = @ + n, ![h].rpos = @ + n,
                                        ![h].faulted = @ + 1]
              /\ UNCHANGED remote
    /\ UNCHANGED << given, Clients, SftpClient, TransferResult, Lock, pc, k, err,
                    chanCloses, sessCloses, visited, wg, local, files >>

\* put: t.Lock.Lock().
PutLock(h) ==
    /\ Method = TransferPut
    /\ Running(h, "lock")
    /\ Lock = <<>>
    /\ Lock' = h
    /\ tasks' = [tasks EXCEPT ![h].pc = "record"]
    /\ UNCHANGED << given, Clients, SftpClient, TransferResult, pc, k, err,
                    chanCloses, sessCloses, visited, wg, local, files, remote, faults >>

\* put: t.TransferResult[addr] = ft, with Lock held.
PutRecord(h) ==
    /\ Method = TransferPut
    /\ Running(h, "record")
    /\ TransferResult' = MapPut(TransferResult, AddrOf(tasks[h]), Outcome(LocalPath, tasks[h]))
    /\ tasks' = [tasks EXCEPT ![h].pc = "unlock"]
    /\ UNCHANGED << given, Clients, SftpClient, Lock, pc, k, err, wg,
                    chanCloses, sessCloses, visited, local, files, remote, faults >>

\* put: t.Lock.Unlock().
PutUnlock(h) ==
    /\ Method = TransferPut
    /\ Running(h, "unlock")
    /\ Lock' = <<>>
    /\ tasks' = [tasks EXCEPT ![h].pc = "return"]
    /\ UNCHANGED << given, Clients, SftpClient, TransferResult, pc, k, err, wg,
                    chanCloses, sessCloses, visited, local, files, remote, faults >>

\* put: return nil: the deferred Close of both files, then the goroutine's wg.Done().
PutReturn(h) ==
    /\ Method = TransferPut
    /\ Running(h, "return")
    /\ Finish(h, "ok")
    /\ UNCHANGED << given, Clients, SftpClient, TransferResult, Lock, pc, k, err,
                    chanCloses, sessCloses, visited, local, files, remote, faults >>

(***************************************************************************)
(* The specification.                                                      *)
(***************************************************************************)
Next ==
    \/ AuthOk
    \/ AuthFail
    \/ DialOk
    \/ DialFail
    \/ NewClientOk
    \/ NewClientFail
    \/ StartOther
    \/ BatchGetCheck
    \/ BatchPutCheck
    \/ Wait
    \/ \E h \in Keys : Spawn(h)
    \/ \E h \in Keys : CloseSftp(h)
    \/ \E h \in Keys : CloseSsh(h)
    \/ \E h \in Keys : GetStat(h)
    \/ \E h \in Keys : GetOpen(h)
    \/ \E h \in Keys : GetCreate(h)
    \/ \E h \in Keys : GetCopy(h)
    \/ \E h \in Keys : GetLock(h)
    \/ \E h \in Keys : GetRecord(h)
    \/ \E h \in Keys : GetUnlock(h)
    \/ \E h \in Keys : GetReturn(h)
    \/ \E h \in Keys : PutStat(h)
    \/ \E h \in Keys : PutOpen(h)
    \/ \E h \in Keys : PutCreate(h)
    \/ \E h \in Keys : PutCopy(h)
    \/ \E h \in Keys : PutLock(h)
    \/ \E h \in Keys : PutRecord(h)
    \/ \E h \in Keys : PutUnlock(h)
    \/ \E h \in Keys : PutReturn(h)

Spec == Init /\ [][Next]_vars

(***************************************************************************)
(* A fetch from three hosts on three servers.                               *)
(***************************************************************************)
\* Host lists of three hosts, no two on the same server: "a", "a:23", "c" and
\* "c", "b:22", "a:23".
ThreeHosts ==
    { << <<"a">>, <<"a", ":", "2", "3">>, <<"c">> >>,
      << <<"c">>, <<"b", ":", "2", "2">>, <<"a", ":", "2", "3">> >> }

InitThree ==
    /\ Method = TransferGet
    /\ LocalPath \in LocalPaths
    /\ RemotePath \in RemotePaths
    /\ Hosts \in ThreeHosts
    /\ local \in {Absent, Dir, LocalFile}
    /\ remote \in Worlds(Servers, Method, RemotePath, Hosts)
    /\ Override = FALSE
    /\ Recursive = FALSE
    /\ Fresh

\* The steps of a fetch.
NextGet ==
    \/ AuthOk
    \/ AuthFail
    \/ DialOk
    \/ DialFail
    \/ NewClientOk
    \/ NewClientFail
    \/ BatchGetCheck
    \/ Wait
    \/ \E h \in Keys : Spawn(h)
    \/ \E h \in Keys : CloseSftp(h)
    \/ \E h \in Keys : CloseSsh(h)
    \/ \E h \in Keys : GetStat(h)
    \/ \E h \in Keys : GetOpen(h)
    \/ \E h \in Keys : GetCreate(h)
    \/ \E h \in Keys : GetCopy(h)
    \/ \E h \in Keys : GetLock(h)
    \/ \E h \in Keys : GetRecord(h)
    \/ \E h \in Keys : GetUnlock(h)
    \/ \E h \in Keys : GetReturn(h)

SpecThree == InitThree /\ [][NextGet]_vars

(***************************************************************************)
(* The naming of a fetched file, on its own: every basename shape and every *)
(* peer address shape, through the expression get passes to os.OpenFile.    *)
(***************************************************************************)
\* Hosts whose fetch is named: those of HostNames and the IPv6 host "d".
NameHosts == HostNames \cup { <<"d">>, <<"d", ":", "2", "3">> }

\* Remote paths whose fetch is named: "f", "/d/f", "/d/f.t", "/d/a.b.c", "/d/.rc",
\* "/d/f.", "/d/f..t", "/d/1.2", "/d/f.t/".
NamePaths ==
    { <<"f">>, <<"/", "d", "/", "f">>, <<"/", "d", "/", "f", ".", "t">>,
      <<"/", "d", "/", "a", ".", "b", ".", "c">>, <<"/", "d", "/", ".", "r", "c">>,
      <<"/", "d", "/", "f", ".">>, <<"/", "d", "/", "f", ".", ".", "t">>,
      <<"/", "d", "/", "1", ".", "2">>, <<"/", "d", "/", "f", ".", "t", "/">> }

\* A fetch from one host whose goroutine has opened the remote file.
InitName ==
    /\ Method = TransferGet
    /\ LocalPath \in LocalPaths
    /\ RemotePath \in NamePaths
    /\ Hosts \in [1..1 -> NameHosts]
    /\ Override = FALSE
    /\ Recursive = FALSE
    /\ Clients = (HostKey(Hosts[1]) :> 1)
    /\ SftpClient = (HostKey(Hosts[1]) :> 1)
    /\ TransferResult = EmptyMap
    /\ Lock = <<>>
    /\ pc = "name"
    /\ k = 2
    /\ err = "nil"
    /\ chanCloses = (1 :> 0)
    /\ sessCloses = (1 :> 0)
    /\ visited = {}
    /\ tasks = EmptyMap
    /\ wg = 0
    /\ local = Dir
    /\ files = EmptyMap
    /\ remote = (RemoteAddr(HostKey(Hosts[1])) :> File(Content("r", BufSize)))
    /\ faults = 0
    /\ remote0 = remote

\* get: the path handed to os.OpenFile, created empty.
NameFile ==
    /\ pc = "name"
    /\ pc' = "named"
    /\ LET fiName == Base(RemotePath)
           addr == RemoteAddr(HostKey(Hosts[1]))
       IN  files' = MapPut(files, PathJoin(LocalPath, DstName(Base(fiName), addr)), <<>>)
    /\ UNCHANGED << given, Clients, SftpClient, TransferResult, Lock, k, err, chanCloses,
                    sessCloses, visited, tasks, wg, local, remote, faults >>

NextName == NameFile

SpecName == InitName /\ [][NextName]_vars

\* Host lists of the runs followed to their end: two servers, and one server twice.
FairHosts ==
    { << <<"a">>, <<"c">> >>, << <<"a">>, <<"a", ":", "2", "3">> >> }

InitFair ==
    /\ Method \in {TransferGet, TransferPut, "NOP"}
    /\ LocalPath \in LocalPaths
    /\ RemotePath = <<"/", "d", "/", "f", ".", "t">>
    /\ Hosts \in FairHosts
    /\ local \in {Absent, Dir, LocalFile}
    /\ remote \in Worlds(Servers, Method, RemotePath, Hosts)
    /\ Override \in (IF Method = TransferPut THEN BOOLEAN ELSE {FALSE})
    /\ Recursive = FALSE
    /\ Fresh

\* The run under a fair scheduler, every blocking call returning: a step that can
\* be taken is eventually taken.
FairSpec == InitFair /\ [][Next]_vars /\ WF_vars(Next)

\* The same run for a request with the recursive flag set.
SpecRecursive == InitRecursive /\ [][Next]_vars

(***************************************************************************)
(* Properties.                                                             *)
(***************************************************************************)
Done(h) == h \in DOMAIN tasks /\ tasks[h].pc = "done"
Failed(h) == Done(h) /\ tasks[h].res # "ok"
Succeeded(h) == Done(h) /\ tasks[h].res = "ok"
ConnectErrors == {"DialError", "SftpError"}
\* initClient has returned nil: every host of the list is dialed and negotiated.
Established == k > Len(Hosts)
\* No other entry of the pool reaches the server of h.
Alone(h) == \A g \in DOMAIN SftpClient : g # h => RemoteAddr(g) # RemoteAddr(h)

\* C1: Start returns only after every goroutine it spawned has finished, with success
\* or with an error, and every goroutine runs on the clients the pool holds for its key.
C1_StartJoinsTasks ==
    /\ pc = "returned" => (wg = 0 /\ \A h \in DOMAIN tasks : tasks[h].pc = "done")
    /\ \A h \in DOMAIN tasks :
          /\ h \in DOMAIN SftpClient /\ h \in DOMAIN Clients
          /\ tasks[h].sc = SftpClient[h] /\ tasks[h].sc \in DOMAIN sessCloses
          /\ tasks[h].c = Clients[h] /\ tasks[h].c \in DOMAIN chanCloses

\* C1 witness: Start has returned after two goroutines, one that succeeded and one that failed.
C1_Witness ==
    /\ pc = "returned"
    /\ \E g, h \in DOMAIN tasks : Succeeded(g) /\ Failed(h)

\* C2: when the dial or the sftp negotiation of any host fails, Start returns that
\* error and no goroutine is ever started: goroutines exist only when every host of
\* the list was dialed and negotiated.
C2_ConnectFailFast ==
    /\ err \in ConnectErrors => (pc = "returned" /\ DOMAIN tasks = {} /\ wg = 0)
    /\ (DOMAIN tasks # {} \/ wg > 0) =>
          /\ Established
          /\ \A i \in 1..Len(Hosts) : i \in DOMAIN chanCloses /\ i \in DOMAIN sessCloses

\* C2 witness: the second host fails its negotiation after the first one connected.
C2_Witness ==
    /\ pc = "returned"
    /\ err = "SftpError"
    /\ k = 2
    /\ 1 \in DOMAIN sessCloses

\* What the goroutine of h returns when it meets no fault of its own, read off the
\* remote target as it was before the run.
OwnRes(h) ==
    LET r0 == remote0[RemoteAddr(h)] IN
    IF Method = TransferGet
    THEN IF r0.kind = "absent" THEN "StatError"
         ELSE IF r0.kind = "dir" THEN "RemoteDir"
         ELSE IF Len(r0.data) > TransferMaxSize THEN "MaxSize"
         ELSE "ok"
    ELSE IF r0.kind # "absent" /\ ~Override THEN "RemoteExists"
         ELSE IF r0.kind = "dir" THEN "CreateError"
         ELSE "ok"

\* The size of the source the goroutine of h copies.
OwnSize(h) == IF Method = TransferGet THEN Len(remote0[RemoteAddr(h)].data) ELSE Len(local.data)

\* The outcome of h is the one its own server, its own source and its own faults give.
OwnOutcome(h) ==
    LET t == tasks[h] IN
    IF t.faulted = 0
    THEN /\ t.res = OwnRes(h)
         /\ t.res = "ok" =>
               /\ RemoteAddr(h) \in DOMAIN TransferResult
               /\ TransferResult[RemoteAddr(h)].Size = OwnSize(h)
               /\ TransferResult[RemoteAddr(h)].Target = t.target
    ELSE /\ OwnRes(h) \in (IF Method = TransferGet
                           THEN {"ok", "RemoteDir", "MaxSize"}
                           ELSE {"ok", "CreateError", "RemoteExists"})
         /\ t.res \in (IF Method = TransferGet    \* its own Stat, open or create failed
                       THEN IF OwnRes(h) = "ok"
                            THEN {"ok", "StatError", "OpenError", "CreateError"}
                            ELSE {OwnRes(h), "StatError"}
                       ELSE IF OwnRes(h) = "RemoteExists"    \* its own Stat failed
                            THEN {"ok", "OpenError", "CreateError"}
                            ELSE {OwnRes(h), "OpenError", "CreateError"})
         /\ t.res = "ok" =>
               /\ RemoteAddr(h) \in DOMAIN TransferResult
               /\ TransferResult[RemoteAddr(h)].Size = t.size
               /\ t.size <= OwnSize(h)

\* C3: a goroutine that fails has opened nothing and holds no lock, every host of
\* the pool still has its goroutine finished when Start returns, and the outcome a
\* host records is fixed by its own server and its own faults, whatever the
\* goroutines of the other hosts did.
C3_FailureIsolation ==
    /\ \A h \in DOMAIN tasks : Failed(h) => (~tasks[h].opened /\ Lock # h)
    /\ (pc = "returned" /\ DOMAIN tasks # {}) => \A h \in DOMAIN SftpClient : Done(h)
    /\ \A h \in DOMAIN tasks : (Done(h) /\ Alone(h)) => OwnOutcome(h)

\* C3 witness: one host failed, another host on another server finished with success.
C3_Witness ==
    /\ pc = "returned"
    /\ \E g, h \in DOMAIN tasks : Failed(g) /\ Succeeded(h) /\ Alone(h) /\ tasks[h].faulted = 0

\* C4 as claimed: after a run TransferResult has one entry per host whose goroutine
\* succeeded, and none for a host whose goroutine failed.
C4_EntryPerSuccess ==
    pc = "returned" =>
       /\ Cardinality(DOMAIN TransferResult) = Cardinality({ h \in DOMAIN tasks : Succeeded(h) })
       /\ \A h \in DOMAIN tasks : Failed(h) => AddrOf(tasks[h]) \notin DOMAIN TransferResult

\* C5 as claimed: two goroutines fetching from different servers write different local files.
C5_DistinctLocalFiles ==
    Method = TransferGet =>
       \A g, h \in DOMAIN tasks :
          (ServerOf(tasks[g]) # ServerOf(tasks[h]) /\ tasks[g].opened /\ tasks[h].opened)
             => tasks[g].target # tasks[h].target

\* C6 as claimed: in a send without Override, on a server whose target existed before
\* the run every goroutine fails with "Remote file exists" at its stat, the target is
\* never opened and stays as it was, and the server's address gets no TransferResult
\* entry; a goroutine that fails with "Remote file exists" has never opened the target.
C6_ExistingRemoteKept ==
    (Method = TransferPut /\ ~Override) =>
       \A h \in DOMAIN tasks :
          LET s == ServerOf(tasks[h]) IN
          /\ remote0[s].kind # "absent" =>
                /\ remote[s] = remote0[s]
                /\ ~tasks[h].opened
                /\ AddrOf(tasks[h]) \notin DOMAIN TransferResult
                /\ tasks[h].pc \in {"stat", "done"}
                /\ tasks[h].pc = "done" => tasks[h].res = "RemoteExists"
          /\ tasks[h].res = "RemoteExists" => ~tasks[h].opened

\* C7 as claimed: a fetch whose local path is a regular file dials no host.
C7_NoDialWhenLocalIsFile ==
    (Method = TransferGet /\ local.kind = "file") => (DOMAIN Clients = {} /\ err # "DialError")

\* C8 as claimed: a send whose local source is a directory makes no connection, spawns
\* no goroutine and ends with the "recursive transfer not supported" error.
C8_SendDirFailsFirst ==
    (Method = TransferPut /\ local.kind = "dir") =>
       /\ DOMAIN Clients = {}
       /\ DOMAIN tasks = {}
       /\ pc = "returned" => err = "Recursive"

\* C9 as claimed: when initClient aborts, every channel and session it had opened is
\* closed before Start returns.
C9_AbortReleases ==
    (pc = "returned" /\ err \in ConnectErrors) =>
       /\ \A i \in DOMAIN chanCloses : chanCloses[i] >= 1
       /\ \A i \in DOMAIN sessCloses : sessCloses[i] >= 1

\* C10 as claimed: once all sessions are established, every session and channel of
\* the pool is closed exactly once when the run ends, on every exit path.
C10_PoolClosedOnce ==
    (Established /\ pc \in {"returned", "exited"}) =>
       /\ \A h \in DOMAIN SftpClient : sessCloses[SftpClient[h]] = 1
       /\ \A h \in DOMAIN Clients : chanCloses[Clients[h]] = 1

\* C11 as claimed: the Size a host records is the exact size of the source it read
\* and the number of units its goroutine wrote to the destination, also when a read
\* or a write of the copy loop fails.
C11_SizeIsSourceSize ==
    \A h \in DOMAIN tasks :
       (Succeeded(h) /\ Alone(h)) =>
          /\ TransferResult[RemoteAddr(h)].Size = OwnSize(h)
          /\ TransferResult[RemoteAddr(h)].Size = tasks[h].wpos

\* C12 as claimed: a run whose request has the recursive flag set starts no transfer
\* in either direction and returns an explicit error.
C12_RecursiveRejected ==
    Recursive =>
       /\ DOMAIN tasks = {}
       /\ DOMAIN TransferResult = {}
       /\ pc = "returned" => err # "nil"

\* The position of the last c in s, 0 when s has none.
LastIndex(s, c) ==
    LET I == { i \in 1..Len(s) : s[i] = c }
    IN  IF I = {} THEN 0 ELSE CHOOSE i \in I : \A j \in I : j <= i

\* The IP of the peer a channel dialed to host h reaches.
PeerIP(h) == IPOf(Split(HostKey(h), ":")[1])

\* <stem>-<ip with every dot a dash>.<ext>, basename split at its last dot.
ClaimedName(basename, ip) ==
    LET i == LastIndex(basename, ".")
        stem == IF i = 0 THEN basename ELSE SubSeq(basename, 1, i - 1)
        ext == IF i = 0 THEN <<>> ELSE SubSeq(basename, i + 1, Len(basename))
    IN  stem \o <<"-">> \o Replace(ip, ".", "-") \o <<".">> \o ext

\* C13 as claimed: the file a fetch creates is named <stem>-<peer IP with every dot
\* replaced by a dash>.<ext>, the remote basename split at its last dot.
C13_FetchName ==
    pc = "named" =>
       DOMAIN files = { PathJoin(LocalPath, ClaimedName(Base(RemotePath), PeerIP(Hosts[1]))) }

\* The remote source of h before the run, and whether a fetch accepts it.
SourceOf(h) == remote0[RemoteAddr(h)]
Fetchable(h) == SourceOf(h).kind = "file" /\ Len(SourceOf(h).data) <= TransferMaxSize
\* The local file a fetch from h writes, and whether no other goroutine writes it
\* (hosts on one IP share the name whatever their ports).
FetchPath(h) == PathJoin(LocalPath, DstName(Base(Base(RemotePath)), RemoteAddr(h)))
OwnPath(h) == \A g \in DOMAIN tasks \ {h} : FetchPath(g) # FetchPath(h)

\* C14: in a fetch from three servers, a host whose remote path is absent, a directory
\* or larger than the maximum fails at stat (with the error of the Stat when the Stat
\* itself fails): its goroutine creates no local file and records no entry; a file of at most the maximum size is copied whole and recorded,
\* unless an I/O fault hits its goroutine; when exactly one of the three is over the
\* limit and the others are files within it, exactly the other two have entries.
C14_SizeLimit ==
    /\ \A h \in DOMAIN tasks :
          LET t == tasks[h] IN
          /\ ~Fetchable(h) =>
                /\ t.pc \in {"stat", "done"}
                /\ ~t.opened
                /\ t.target = <<>>
                /\ OwnPath(h) => FetchPath(h) \notin DOMAIN files
                /\ RemoteAddr(h) \notin DOMAIN TransferResult
                /\ Done(h) => t.res = (IF SourceOf(h).kind = "absent" \/ t.faulted > 0
                                       THEN "StatError"
                                       ELSE IF SourceOf(h).kind = "dir" THEN "RemoteDir"
                                       ELSE "MaxSize")
          /\ (Fetchable(h) /\ Done(h) /\ t.faulted = 0) =>
                /\ t.res = "ok"
                /\ t.target = FetchPath(h)
                /\ OwnPath(h) => files[FetchPath(h)] = SourceOf(h).data
                /\ RemoteAddr(h) \in DOMAIN TransferResult
                /\ TransferResult[RemoteAddr(h)].Size = Len(SourceOf(h).data)
    /\ (/\ pc = "returned"
        /\ Cardinality(DOMAIN tasks) = 3
        /\ faults = 0
        /\ \E h \in DOMAIN tasks :
              /\ SourceOf(h).kind = "file"
              /\ ~Fetchable(h)
              /\ \A g \in DOMAIN tasks \ {h} : Fetchable(g))
       => \E h \in DOMAIN tasks :
             /\ ~Fetchable(h)
             /\ DOMAIN TransferResult = { RemoteAddr(g) : g \in DOMAIN tasks \ {h} }
             /\ Cardinality(DOMAIN TransferResult) = 2

\* Three hosts fetched, one over the limit and refused, one of exactly the maximum
\* size recorded with that size.
C14_Witness ==
    /\ pc = "returned"
    /\ Cardinality(DOMAIN tasks) = 3
    /\ Cardinality(DOMAIN TransferResult) = 2
    /\ \E h \in DOMAIN tasks :
          /\ Len(SourceOf(h).data) > TransferMaxSize
          /\ tasks[h].res = "MaxSize"
          /\ RemoteAddr(h) \notin DOMAIN TransferResult
    /\ \E g \in DOMAIN tasks :
          /\ Succeeded(g)
          /\ TransferResult[RemoteAddr(g)].Size = TransferMaxSize

\* The goroutines between Lock and Unlock.
Guarded == { h \in DOMAIN tasks : tasks[h].pc \in {"record", "unlock"} }

\* C15: the goroutine that holds Lock is the only one between Lock and Unlock;
\* TransferResult changes only in a step of the holder, which adds the holder's entry
\* with Lock still held; Lock is released only by its holder, right after; and the
\* steps a goroutine takes while it holds Lock are the map assignment and the
\* Unlock, which touch no remote file and no local file.
C15_GuardedWrites ==
    /\ [](/\ Cardinality(Guarded) <= 1
          /\ Lock # <<>> => Guarded = {Lock}
          /\ Lock = <<>> => Guarded = {})
    /\ [][/\ TransferResult' # TransferResult =>
               /\ Lock # <<>>
               /\ Lock' = Lock
               /\ tasks[Lock].pc = "record"
               /\ tasks'[Lock].pc = "unlock"
               /\ \A g \in DOMAIN tasks \ {Lock} : tasks'[g] = tasks[g]
               /\ DOMAIN TransferResult' = DOMAIN TransferResult \cup {AddrOf(tasks[Lock])}
               /\ \A a \in DOMAIN TransferResult \ {AddrOf(tasks[Lock])} :
                     TransferResult'[a] = TransferResult[a]
          /\ (Lock # <<>> /\ tasks'[Lock] # tasks[Lock]) =>
               /\ UNCHANGED << files, remote, local, wg >>
               /\ \/ /\ tasks[Lock].pc = "record"
                     /\ Lock' = Lock
                     /\ AddrOf(tasks[Lock]) \in DOMAIN TransferResult'
                  \/ /\ tasks[Lock].pc = "unlock"
                     /\ Lock' = <<>>
                     /\ UNCHANGED TransferResult
          /\ (Lock # <<>> /\ Lock' # Lock) =>
               /\ Lock' = <<>>
               /\ tasks[Lock].pc = "unlock"
               /\ tasks'[Lock].pc = "return"]_vars

\* A goroutine holds Lock while another waits for it with its copy finished.
C15_Witness ==
    /\ Lock # <<>>
    /\ \E g \in DOMAIN tasks : tasks[g].pc = "lock" /\ g # Lock

\* C16 as claimed: when initClient has succeeded, every channel and every session it
\* opened is held by the pool, one per entry of the host list.
C16_PoolHoldsAll ==
    Established =>
       /\ \A i \in DOMAIN chanCloses : \E h \in DOMAIN Clients : Clients[h] = i
       /\ \A i \in DOMAIN sessCloses : \E h \in DOMAIN SftpClient : SftpClient[h] = i
       /\ Cardinality(DOMAIN SftpClient) = Len(Hosts)

\* C17: while a goroutine of the batch is running no session and no channel has been
\* closed and Start is still in the batch; the deferred closes run with every
\* goroutine finished and the WaitGroup at zero.
C17_NoCloseWhileRunning ==
    /\ (\E h \in DOMAIN tasks : tasks[h].pc # "done") =>
          /\ pc \in {"spawn", "wait"}
          /\ \A i \in DOMAIN sessCloses : sessCloses[i] = 0
          /\ \A i \in DOMAIN chanCloses : chanCloses[i] = 0
    /\ ((\E i \in DOMAIN sessCloses : sessCloses[i] > 0)
           \/ (\E i \in DOMAIN chanCloses : chanCloses[i] > 0)) =>
          /\ wg = 0
          /\ \A h \in DOMAIN tasks : tasks[h].pc = "done"

\* The release is under way after a batch of two goroutines, one of which copied.
C17_Witness ==
    /\ pc = "closeSftp"
    /\ Cardinality(DOMAIN tasks) = 2
    /\ \E h \in DOMAIN tasks : Succeeded(h)
    /\ \E i \in DOMAIN sessCloses : sessCloses[i] > 0

\* C18: once goroutines were spawned, Start returns nil whatever their results: the
\* error of a goroutine never becomes the value Start returns, and stays nil from
\* the spawn to the return.
C18_TaskErrorsNotReturned ==
    DOMAIN tasks # {} =>
       /\ err = "nil"
       /\ pc \in {"spawn", "wait", "closeSftp", "closeSsh", "returned"}

\* Start has returned nil after a batch of two goroutines that both failed.
C18_Witness ==
    /\ pc = "returned"
    /\ err = "nil"
    /\ Cardinality(DOMAIN tasks) = 2
    /\ \A h \in DOMAIN tasks : Failed(h)
    /\ DOMAIN TransferResult = {}

\* Every goroutine of the batch has returned and the deferred function has closed
\* every session and every channel of the pool.
AllReleased ==
    /\ pc = "returned"
    /\ wg = 0
    /\ \A h \in DOMAIN tasks : tasks[h].pc = "done"
    /\ \A h \in DOMAIN SftpClient :
          SftpClient[h] \in DOMAIN sessCloses /\ sessCloses[SftpClient[h]] >= 1
    /\ \A h \in DOMAIN Clients :
          Clients[h] \in DOMAIN chanCloses /\ chanCloses[Clients[h]] >= 1

\* C19: under a fair scheduler, once batchGet or batchPut spawns its goroutines each
\* of them terminates, the barrier is released and Start returns with every pooled
\* session closed; and nothing but the goroutines releases the barrier: wg.Wait()
\* cannot return while one of them is running.
C19_BatchTerminates ==
    /\ (DOMAIN tasks # {}) ~> AllReleased
    /\ []((pc = "wait" /\ \E h \in DOMAIN tasks : tasks[h].pc # "done") => ~ENABLED Wait)

\* Both goroutines of a batch are in their copy loops while Start waits at the barrier.
C19_Witness ==
    /\ pc = "wait"
    /\ wg = 2
    /\ \A h \in DOMAIN tasks : tasks[h].pc = "copy"

\* C20 as claimed: a run whose Method is neither GET nor PUT, once connected to every
\* host, spawns no goroutine, leaves TransferResult empty and returns nil with every
\* session and every channel it opened closed.
C20_OtherMethodClosesAll ==
    (Method \notin {TransferGet, TransferPut} /\ pc = "returned" /\ err = "nil") =>
       /\ DOMAIN tasks = {}
       /\ DOMAIN TransferResult = {}
       /\ DOMAIN sessCloses = 1..Len(Hosts)
       /\ DOMAIN chanCloses = 1..Len(Hosts)
       /\ \A i \in DOMAIN sessCloses : sessCloses[i] = 1
       /\ \A i \in DOMAIN chanCloses : chanCloses[i] = 1

====
